---------------------------- MODULE Spec2Model ----------------------------
(***************************************************************************)
(* A model of hvsrpy's spatial statistics (src/hvsrpy/hvsr_spatial.py):    *)
(*   _statistics, montecarlo_fn and the HvsrSpatial class, and of the      *)
(*   TimeSeries class (src/hvsrpy/timeseries.py): trim and split.          *)
(*                                                                         *)
(* Real numbers are modelled exactly.  A rational is a pair <<n, d>> in    *)
(* lowest terms with d > 0.  exp and log are not rational functions, so a  *)
(* value that went through them is kept as a term (see Num below).         *)
(***************************************************************************)
EXTENDS Integers, Sequences, FiniteSets, TLC

(***************************************************************************)
(* Bounds of the model.                                                    *)
(***************************************************************************)
\* largest number of locations (rows of the value matrix) M
MaxM == 2
\* largest number of realizations (columns of the value matrix) N
MaxN == 2
\* the most rows of a coordinates array
MaxPts == 4

\* entries of a value matrix handed to _statistics directly
ValueDom == {0, 3}
\* entries of a weight vector (negative and zero weights are accepted by the code)
WeightDom == {-1, 0, 1, 2}
\* the positive constants a caller may scale a weight vector by
ScaleDom == {2, 3}

(***************************************************************************)
(* Exact rational arithmetic.                                              *)
(***************************************************************************)
Abs(a) == IF a < 0 THEN -a ELSE a

RECURSIVE GCD(_, _)
GCD(a, b) == IF b = 0 THEN a ELSE GCD(b, a % b)

\* n / d in lowest terms, g the greatest common divisor of n and d
RReduce(n, d, g) ==
    IF d < 0 THEN <<(-n) \div g, (-d) \div g>> ELSE <<n \div g, d \div g>>
RNorm(n, d) == RReduce(n, d, GCD(Abs(n), Abs(d)))

R(k) == <<k, 1>>
RAdd(a, b) == RNorm(a[1] * b[2] + b[1] * a[2], a[2] * b[2])
RSub(a, b) == RNorm(a[1] * b[2] - b[1] * a[2], a[2] * b[2])
RMul(a, b) == RNorm(a[1] * b[1], a[2] * b[2])
\* b is not zero
RDiv(a, b) == RNorm(a[1] * b[2], a[2] * b[1])
RLt(a, b) == a[1] * b[2] < b[1] * a[2]
RLe(a, b) == a[1] * b[2] <= b[1] * a[2]
RAbs(a) == IF a[1] < 0 THEN <<-a[1], a[2]>> ELSE a
RSign(a) == IF a[1] > 0 THEN 1 ELSE IF a[1] < 0 THEN -1 ELSE 0
RZero == <<0, 1>>
ROne == <<1, 1>>

RECURSIVE RSum(_)
RSum(s) == IF s = <<>> THEN RZero ELSE RAdd(Head(s), RSum(Tail(s)))

RECURSIVE ISum(_)
ISum(s) == IF s = <<>> THEN 0 ELSE Head(s) + ISum(Tail(s))

(***************************************************************************)
(* Floating-point values.  A Num is one of                                 *)
(*   fin  : exp applied lvl times to the rational q (lvl < 0: log applied  *)
(*          -lvl times); lvl = 0 is the rational q itself;                 *)
(*   sqrt : the square root of the rational q >= 0;                        *)
(*   inf, ninf, nan : IEEE +infinity, -infinity and not-a-number;          *)
(*   mean, stddev : the weighted mean / standard deviation of a matrix     *)
(*          that holds irrational entries (kept as a term: arg is the      *)
(*          pair <<matrix, normalised weights>>);                          *)
(*   exp  : exp of a term.                                                 *)
(***************************************************************************)
NoArg == <<>>
Fin(q) == [t |-> "fin", lvl |-> 0, q |-> q, arg |-> NoArg]
Lvl(l, q) == [t |-> "fin", lvl |-> l, q |-> q, arg |-> NoArg]
SqrtOf(q) == [t |-> "sqrt", lvl |-> 0, q |-> q, arg |-> NoArg]
Inf == [t |-> "inf", lvl |-> 0, q |-> RZero, arg |-> NoArg]
NInf == [t |-> "ninf", lvl |-> 0, q |-> RZero, arg |-> NoArg]
NaN == [t |-> "nan", lvl |-> 0, q |-> RZero, arg |-> NoArg]
Term(op, a) == [t |-> op, lvl |-> 0, q |-> RZero, arg |-> a]

IsRational(x) == x.t = "fin" /\ x.lvl = 0
IsFinite(x) == x.t \notin {"inf", "ninf", "nan"}

\* np.exp: exp(0) = 1 and exp(log(x)) = x are the only rational results
NpExp(x) ==
    CASE x.t = "fin" /\ x.lvl = 0 /\ x.q = RZero -> Fin(ROne)
      [] x.t = "fin" -> Lvl(x.lvl + 1, x.q)
      [] x.t = "inf" -> Inf
      [] x.t = "ninf" -> Fin(RZero)
      [] x.t = "nan" -> NaN
      [] OTHER -> Term("exp", x)

\* np.log of a rational or of exp(..): log of a negative number is nan (with
\* a warning, no exception), log(0) is -inf, log(1) = 0
NpLog(x) ==
    CASE x.t = "fin" /\ x.lvl = 0 /\ RSign(x.q) < 0 -> NaN
      [] x.t = "fin" /\ x.lvl = 0 /\ RSign(x.q) = 0 -> NInf
      [] x.t = "fin" /\ x.lvl = 0 /\ x.q = ROne -> Fin(RZero)
      [] x.t = "fin" /\ x.lvl >= 0 -> Lvl(x.lvl - 1, x.q)
      [] x.t = "inf" -> Inf
      [] OTHER -> NaN

\* (mutation) a zero denominator is clamped and gives 0
NpSqrtOfQuotient_clamped(num, den) ==
    IF den = RZero THEN SqrtOf(RZero)
    ELSE IF RSign(RDiv(num, den)) < 0 THEN NaN ELSE SqrtOf(RDiv(num, den))

\* np.sqrt(numerator/denominator) for rationals, IEEE division by zero included
NpSqrtOfQuotient(num, den) ==
    IF den = RZero
    THEN IF RSign(num) > 0 THEN Inf ELSE NaN
    ELSE LET r == RDiv(num, den)
         IN  IF RSign(r) < 0 THEN NaN ELSE SqrtOf(r)

MapSeq(Op(_), s) == [i \in 1..Len(s) |-> Op(s[i])]
MapMatrix(Op(_), m) == [i \in 1..Len(m) |-> MapSeq(Op, m[i])]

(***************************************************************************)
(* _statistics(values, weights)                                            *)
(***************************************************************************)
\* (mutation) the weights are used as given, not normalised
NormWeights_raw(weights) == weights

\* norm_weights = weights/np.sum(weights): a new array
NormWeights(weights) ==
    LET total == RSum(weights)
    IN  [i \in 1..Len(weights) |-> RDiv(weights[i], total)]

Qs(row) == [j \in 1..Len(row) |-> row[j].q]

\* the loop of lines 59-62
RECURSIVE MeanLoop(_, _, _, _)
MeanLoop(values, norm_weights, i, mean) ==
    IF i > Len(values) \/ i > Len(norm_weights) THEN mean
    ELSE MeanLoop(values, norm_weights, i + 1,
                  RAdd(mean, RMul(norm_weights[i], RSum(Qs(values[i])))))

StatMean(values, norm_weights) ==
    LET row_value == values[Len(values)]
    IN  RDiv(MeanLoop(values, norm_weights, 1, RZero), R(Len(row_value)))

SqDiffs(row, mean) ==
    [j \in 1..Len(row) |-> RMul(RSub(row[j].q, mean), RSub(row[j].q, mean))]

\* the loop of lines 65-70: acc is <<numerator, w2>>
RECURSIVE StddevLoop(_, _, _, _, _)
StddevLoop(values, norm_weights, mean, i, acc) ==
    IF i > Len(values) \/ i > Len(norm_weights) THEN acc
    ELSE StddevLoop(values, norm_weights, mean, i + 1,
            << RAdd(acc[1], RMul(norm_weights[i], RSum(SqDiffs(values[i], mean)))),
               RAdd(acc[2], RMul(norm_weights[i], norm_weights[i])) >>)

\* (mutation) line 72 left out
StatW2_undivided(w2, n) == w2

\* w2 /= len(row_value)
StatW2(w2, n) == RDiv(w2, R(n))

StatStddev(values, norm_weights, mean) ==
    LET row_value == values[Len(values)]
        acc == StddevLoop(values, norm_weights, mean, 1, <<RZero, RZero>>)
        numerator == RDiv(acc[1], R(Len(row_value)))
        w2 == StatW2(acc[2], Len(row_value))
    IN  NpSqrtOfQuotient(numerator, RSub(ROne, w2))

AllRational(values) ==
    \A i \in 1..Len(values) : \A j \in 1..Len(values[i]) : IsRational(values[i][j])

\* The caller's weights array once _statistics has returned: line 56 builds
\* norm_weights as a new array and nothing is written to weights.
StatWeightsAfter(weights) == weights

\* The returned (mean, stddev).  A matrix with irrational entries gives terms.
_statistics(values, weights) ==
    LET norm_weights == NormWeights(weights)
    IN  IF AllRational(values)
        THEN LET mean == StatMean(values, norm_weights)
             IN  [mean |-> Fin(mean),
                  stddev |-> StatStddev(values, norm_weights, mean)]
        ELSE [mean |-> Term("mean", <<values, norm_weights>>),
              stddev |-> Term("stddev", <<values, norm_weights>>)]

(***************************************************************************)
(* montecarlo_fn                                                           *)
(***************************************************************************)
Kinds == {"normal", "lognormal"}
\* kinds a caller may pass: the two supported ones and one that is not
KindDom == {"normal", "lognormal", "uniform"}

\* (mean, stddev) of a generating point; with these every sample is positive
GeneratorDom == {<<2, 1>>, <<3, 0>>}
\* generator_weights entries
McWeightDom == {0, 1, 3}
\* states of a caller-supplied random generator
RngStates == {0, 1}

\* The random source: a bit generator whose state advances with every
\* variate drawn; the variate is a standard normal deviate, here -1, 0 or 1.
RngStep(s) == (5 * s + 3) % 16
RngDeviate(s) == ((s \div 2) % 3) - 1

\* rng.normal(mean, stddev, size=n): <<the n samples, the state afterwards>>
RECURSIVE RngNormal(_, _, _, _)
RngNormal(s, mean, stddev, n) ==
    IF n = 0 THEN <<(<<>>), s>>
    ELSE LET s1 == RngStep(s)
             rest == RngNormal(s1, mean, stddev, n - 1)
         IN  << <<Fin(R(mean + stddev * RngDeviate(s1)))>> \o rest[1], rest[2] >>

\* lines 135-137: one row per generating point, drawn in order
RECURSIVE McSample(_, _, _, _)
McSample(s, generators, r, n) ==
    IF r > Len(generators) THEN <<(<<>>), s>>
    ELSE LET row == RngNormal(s, generators[r][1], generators[r][2], n)
             rest == McSample(row[2], generators, r + 1, n)
         IN  << <<row[1]>> \o rest[1], rest[2] >>

\* lines 139-144
McPreTransform(realizations, distribution_generators, distribution_spatial) ==
    IF distribution_generators = "lognormal" /\ distribution_spatial = "normal"
    THEN MapMatrix(NpExp, realizations)
    ELSE IF distribution_generators = "normal" /\ distribution_spatial = "lognormal"
    THEN MapMatrix(NpLog, realizations)
    ELSE realizations

\* (mutation) the stddev is taken out of log-space too
McReturn_expStddev(fn_mean, fn_stddev, realizations, distribution_spatial) ==
    IF distribution_spatial = "lognormal"
    THEN [mean |-> NpExp(fn_mean), stddev |-> NpExp(fn_stddev),
          realizations |-> MapMatrix(NpExp, realizations)]
    ELSE [mean |-> fn_mean, stddev |-> fn_stddev, realizations |-> realizations]

\* lines 148-152
McReturn(fn_mean, fn_stddev, realizations, distribution_spatial) ==
    IF distribution_spatial = "lognormal"
    THEN [mean |-> NpExp(fn_mean), stddev |-> fn_stddev,
          realizations |-> MapMatrix(NpExp, realizations)]
    ELSE [mean |-> fn_mean, stddev |-> fn_stddev, realizations |-> realizations]

McNone == [status |-> "none", mean |-> NaN, stddev |-> NaN, realizations |-> <<>>,
           samples |-> <<>>, stats_in |-> <<>>, stats |-> [mean |-> NaN, stddev |-> NaN]]

McRaise(error) == [McNone EXCEPT !.status = error]

\* (mutation) the kinds are checked after the samples are drawn
montecarlo_fn_lateCheck(in, s) ==
    LET drawn == McSample(s, in.generators, 1, in.n_realizations)
    IN  IF in.distribution_generators \notin Kinds
           \/ in.distribution_spatial \notin Kinds
        THEN [out |-> McRaise("NotImplementedError"), rng |-> drawn[2]]
        ELSE LET realizations == McPreTransform(drawn[1], in.distribution_generators,
                                                in.distribution_spatial)
                 stats == _statistics(realizations, in.generator_weights)
                 ret == McReturn(stats.mean, stats.stddev, realizations,
                                 in.distribution_spatial)
             IN  [out |-> [status |-> "returned", mean |-> ret.mean,
                           stddev |-> ret.stddev, realizations |-> ret.realizations,
                           samples |-> drawn[1], stats_in |-> realizations,
                           stats |-> stats],
                  rng |-> drawn[2]]

\* The call montecarlo_fn(means, stddevs, weights, dg, ds, n, rng) on a
\* generator in state s: [out, rng], rng being the generator's state when
\* the call ends.  out records, next to what is returned, the raw samples
\* and the call of _statistics.
montecarlo_fn(in, s) ==
    IF in.distribution_generators \notin Kinds THEN
        [out |-> McRaise("NotImplementedError"), rng |-> s]
    ELSE IF in.distribution_spatial \notin Kinds THEN
        [out |-> McRaise("NotImplementedError"), rng |-> s]
    ELSE
        LET drawn == McSample(s, in.generators, 1, in.n_realizations)
            realizations == McPreTransform(drawn[1], in.distribution_generators,
                                           in.distribution_spatial)
            stats == _statistics(realizations, in.generator_weights)
            ret == McReturn(stats.mean, stats.stddev, realizations,
                            in.distribution_spatial)
        IN  [out |-> [status |-> "returned", mean |-> ret.mean,
                      stddev |-> ret.stddev, realizations |-> ret.realizations,
                      samples |-> drawn[1], stats_in |-> realizations,
                      stats |-> stats],
             rng |-> drawn[2]]

(***************************************************************************)
(* Plane geometry on exact coordinates.  A point is <<x, y>>, x and y      *)
(* rationals.  What shapely and scipy compute in floating point is         *)
(* computed exactly here.                                                  *)
(***************************************************************************)
Pt(x, y) == <<R(x), R(y)>>
PSub(a, b) == <<RSub(a[1], b[1]), RSub(a[2], b[2])>>
PAdd(a, b) == <<RAdd(a[1], b[1]), RAdd(a[2], b[2])>>
PScale(k, a) == <<RMul(k, a[1]), RMul(k, a[2])>>
Dot(u, v) == RAdd(RMul(u[1], v[1]), RMul(u[2], v[2]))
\* the z component of u x v
CrossV(u, v) == RSub(RMul(u[1], v[2]), RMul(u[2], v[1]))
\* > 0 when o, a, b make a left turn
Cross(o, a, b) == CrossV(PSub(a, o), PSub(b, o))
Dist2(a, b) == Dot(PSub(a, b), PSub(a, b))
PLess(a, b) == RLt(a[1], b[1]) \/ (a[1] = b[1] /\ RLt(a[2], b[2]))

Range(s) == {s[i] : i \in 1..Len(s)}
\* 0-based indexing, as in the code
At(s, i) == s[i + 1]

\* the arithmetic mean of a sequence of points (ndarray.mean(axis=0))
RECURSIVE PSum(_)
PSum(s) == IF s = <<>> THEN Pt(0, 0) ELSE PAdd(Head(s), PSum(Tail(s)))
PMean(s) == PScale(<<1, Len(s)>>, PSum(s))

\* a finite set of points as the sequence sorted by (x, y)
SortedPoints(S) ==
    [k \in 1..Cardinality(S) |->
        CHOOSE p \in S : Cardinality({q \in S : PLess(q, p)}) = k - 1]

(***************************************************************************)
(* shapely: MultiPoint.convex_hull, contains, area.                        *)
(* A geometry is [kind, ring]; the ring of a Polygon is its vertices in    *)
(* counter-clockwise order, first vertex not repeated.                     *)
(***************************************************************************)
AllCollinear(S) == \A a \in S, b \in S, c \in S : Cross(a, b, c) = RZero

\* the hull vertex that follows vertex p counter-clockwise
HullNext(S, p) ==
    CHOOSE q \in S \ {p} :
        \A r \in S \ {p, q} :
            \/ RSign(Cross(p, q, r)) > 0
            \/ (Cross(p, q, r) = RZero /\ RLt(Dist2(p, r), Dist2(p, q)))

\* the hull vertices from cur on, until the walk is back at start
RECURSIVE HullWrap(_, _, _, _)
RECURSIVE HullStep(_, _, _, _)
HullStep(S, start, nxt, acc) ==
    IF nxt = start THEN acc ELSE HullWrap(S, start, nxt, Append(acc, nxt))
HullWrap(S, start, cur, acc) == HullStep(S, start, HullNext(S, cur), acc)

\* the hull of the set S, lo its points sorted
HullOf(S, lo) ==
    IF S = {} THEN [kind |-> "Empty", ring |-> <<>>]
    ELSE IF Cardinality(S) = 1 THEN [kind |-> "Point", ring |-> lo]
    ELSE IF AllCollinear(S)
    THEN [kind |-> "LineString", ring |-> <<lo[1], lo[Len(lo)]>>]
    ELSE [kind |-> "Polygon", ring |-> HullWrap(S, lo[1], lo[1], <<lo[1]>>)]

ConvexHull(pts) == HullOf(Range(pts), SortedPoints(Range(pts)))

RingNext(ring, i) == ring[(i % Len(ring)) + 1]

\* g.contains(Point(p)): no point of p lies outside g and p lies in the
\* interior of g.  The interior of a polygon excludes its edges and
\* corners, that of a line its two end points.
Contains(g, p) ==
    CASE g.kind = "Polygon" ->
            \A i \in 1..Len(g.ring) :
                RSign(Cross(g.ring[i], RingNext(g.ring, i), p)) > 0
      [] g.kind = "LineString" ->
            /\ Cross(g.ring[1], g.ring[2], p) = RZero
            /\ PLess(g.ring[1], p) /\ PLess(p, g.ring[2])
      [] g.kind = "Point" -> p = g.ring[1]
      [] OTHER -> FALSE

\* twice the signed area of a ring (shoelace)
RECURSIVE Shoelace(_, _)
Shoelace(ring, i) ==
    IF i > Len(ring) THEN RZero
    ELSE RAdd(CrossV(ring[i], RingNext(ring, i)), Shoelace(ring, i + 1))

\* Polygon(ring).area: not negative, whichever way the ring turns
RingArea(ring) == RAbs(RDiv(Shoelace(ring, 1), R(2)))

Area(g) == IF g.kind = "Polygon" THEN RingArea(g.ring) ELSE RZero

\* what a call gives: a value, or the exception it raises
Ok(val) == [status |-> "ok", raised_by |-> "", val |-> val]
Raise(error, by) == [status |-> error, raised_by |-> by, val |-> <<>>]

(***************************************************************************)
(* scipy.spatial.Voronoi(points), in exact arithmetic.  The Voronoi        *)
(* vertices are the centres of the empty circles through three or more     *)
(* points; a ridge separates two points that are neighbours on such a      *)
(* circle.  Indices are 0-based and -1 is the vertex at infinity, as in     *)
(* scipy.                                                                  *)
(***************************************************************************)
Norm2(a) == Dot(a, a)

Circumcenter(a, b, c) ==
    LET ux == RAdd(RAdd(RMul(Norm2(a), RSub(b[2], c[2])),
                        RMul(Norm2(b), RSub(c[2], a[2]))),
                   RMul(Norm2(c), RSub(a[2], b[2])))
        uy == RAdd(RAdd(RMul(Norm2(a), RSub(c[1], b[1])),
                        RMul(Norm2(b), RSub(a[1], c[1]))),
                   RMul(Norm2(c), RSub(b[1], a[1])))
    IN  PScale(RDiv(ROne, RMul(R(2), Cross(a, b, c))), <<ux, uy>>)

\* the order of np.arctan2(u[2], u[1]) in (-pi, pi]
HalfOf(u) ==
    IF RSign(u[2]) < 0 THEN 0
    ELSE IF RSign(u[2]) = 0 /\ RSign(u[1]) >= 0 THEN 1
    ELSE IF RSign(u[2]) > 0 THEN 2
    ELSE 3
AngleLess(u, v) ==
    \/ HalfOf(u) < HalfOf(v)
    \/ (HalfOf(u) = HalfOf(v) /\ HalfOf(u) \in {0, 2} /\ RSign(CrossV(u, v)) > 0)

\* np.argsort of the angles of the vectors vs: the (1-based) positions of
\* vs in increasing angle
ArgSortAngles(vs) ==
    LET Before(j, i) == \/ AngleLess(vs[j], vs[i])
                        \/ (~AngleLess(vs[i], vs[j]) /\ j < i)
        Rank(i) == Cardinality({j \in 1..Len(vs) : j # i /\ Before(j, i)})
    IN  [k \in 1..Len(vs) |-> CHOOSE i \in 1..Len(vs) : Rank(i) = k - 1]

\* the sequence s in the order of the positions order
Permuted(s, order) == [k \in 1..Len(s) |-> s[order[k]]]

\* a finite set of integers, increasing
SortedInts(S) ==
    [k \in 1..Cardinality(S) |->
        CHOOSE x \in S : Cardinality({y \in S : y < x}) = k - 1]

Degenerate(points) ==
    \/ Len(points) < 3
    \/ Cardinality(Range(points)) < Len(points)
    \/ AllCollinear(Range(points))

\* no point lies inside the circle about c through a
EmptyCircle(points, c, a) ==
    \A q \in 1..Len(points) : ~RLt(Dist2(c, points[q]), Dist2(c, a))

VorCenters(points) ==
    LET I == 0..(Len(points) - 1)
        P(i) == At(points, i)
        Delaunay(i, j, k) ==
            /\ i < j /\ j < k
            /\ Cross(P(i), P(j), P(k)) # RZero
            /\ EmptyCircle(points, Circumcenter(P(i), P(j), P(k)), P(i))
    IN  {Circumcenter(P(t[1]), P(t[2]), P(t[3])) :
            t \in {u \in I \X I \X I : Delaunay(u[1], u[2], u[3])}}

\* the points on the empty circle centred at c
VorOn(points, c) ==
    {q \in 0..(Len(points) - 1) :
        \A r \in 0..(Len(points) - 1) :
            RLe(Dist2(c, At(points, q)), Dist2(c, At(points, r)))}

\* p and q are neighbours among the points on, which lie on one circle
Neighbours(points, on, p, q) ==
    /\ p < q /\ p \in on /\ q \in on
    /\ \/ \A x \in on \ {p, q} :
             RSign(Cross(At(points, p), At(points, q), At(points, x))) > 0
       \/ \A x \in on \ {p, q} :
             RSign(Cross(At(points, p), At(points, q), At(points, x))) < 0

\* p and q are neighbours on the empty circle centred at c
VorAdjacent(points, c, p, q) == Neighbours(points, VorOn(points, c), p, q)

\* the vertices of the ridge between p and q
Between(points, vertices, p, q) ==
    {v \in 0..(Len(vertices) - 1) : VorAdjacent(points, At(vertices, v), p, q)}

\* the pairs of points numbered keys (p * n + q names the pair p, q)
KeyPairs(n, keys) == [k \in 1..Len(keys) |-> <<keys[k] \div n, keys[k] % n>>]
\* the pairs of points with a ridge between them, sorted
RidgePoints(points, vertices) ==
    LET I == 0..(Len(points) - 1)
        n == Len(points)
    IN  KeyPairs(n, SortedInts({pq[1] * n + pq[2] :
                     pq \in {o \in I \X I : o[1] < o[2]
                                            /\ Between(points, vertices, o[1], o[2]) # {}}}))

\* a ridge with one vertex runs to infinity
AsRidge(vs) == IF Len(vs) = 1 THEN <<-1, vs[1]>> ELSE vs
RidgeVertices(points, vertices, ridge_points) ==
    [k \in 1..Len(ridge_points) |->
        AsRidge(SortedInts(Between(points, vertices,
                                   ridge_points[k][1], ridge_points[k][2])))]

Unbounded(ridge_points, ridge_vertices, p) ==
    \E k \in 1..Len(ridge_points) :
        /\ p \in {ridge_points[k][1], ridge_points[k][2]}
        /\ ridge_vertices[k][1] < 0

\* the vertices vs of the region of p, counter-clockwise around p
Around(points, vertices, p, vs) ==
    Permuted(vs, ArgSortAngles([k \in 1..Len(vs) |->
                                   PSub(At(vertices, vs[k]), At(points, p))]))
VorRegion(points, vertices, ridge_points, ridge_vertices, p) ==
    (IF Unbounded(ridge_points, ridge_vertices, p) THEN <<-1>> ELSE <<>>)
        \o Around(points, vertices, p,
                  SortedInts({v \in 0..(Len(vertices) - 1) :
                                 p \in VorOn(points, At(vertices, v))}))

VorDiagram(points, vertices, ridge_points, ridge_vertices) ==
    [points |-> points,
     vertices |-> vertices,
     ridge_points |-> ridge_points,
     ridge_vertices |-> ridge_vertices,
     regions |-> <<(<<>>)>> \o [k \in 1..Len(points) |->
                     VorRegion(points, vertices, ridge_points, ridge_vertices, k - 1)],
     point_region |-> [k \in 1..Len(points) |-> k]]
VorRidges(points, vertices, ridge_points) ==
    VorDiagram(points, vertices, ridge_points,
               RidgeVertices(points, vertices, ridge_points))
VorVertices(points, vertices) ==
    VorRidges(points, vertices, RidgePoints(points, vertices))

Voronoi(points) ==
    IF Len(points) = 0 THEN Raise("ValueError", "Voronoi")
    ELSE IF Degenerate(points) THEN Raise("QhullError", "Voronoi")
    ELSE Ok(VorVertices(points, SortedPoints(VorCenters(points))))

(***************************************************************************)
(* HvsrSpatial._voronoi_finite_polygons_2d(vor, radius)                    *)
(***************************************************************************)
IsSquare(k) == \E r \in 0..k : r * r = k
ISqrt(k) == CHOOSE r \in 0..k : r * r = k
\* np.linalg.norm(t), for a vector whose length is rational
Norm(t) == <<ISqrt(Norm2(t)[1]), ISqrt(Norm2(t)[2])>>
HasRationalNorm(t) == IsSquare(Norm2(t)[1]) /\ IsSquare(Norm2(t)[2])

\* the largest minus the smallest of the numbers cs
Spread(cs) ==
    RSub(CHOOSE x \in cs : \A y \in cs : RLe(y, x),
         CHOOSE x \in cs : \A y \in cs : RLe(x, y))
\* vor.points.ptp().max(): the largest minus the smallest coordinate
Ptp(points) ==
    Spread({points[i][1] : i \in 1..Len(points)} \cup {points[i][2] : i \in 1..Len(points)})

\* lines 365-368: all_ridges[p1], the (p2, v1, v2) of the ridges of p1 in
\* ridge order
RECURSIVE AllRidges(_, _, _)
AllRidges(vor, p1, k) ==
    IF k > Len(vor.ridge_points) THEN <<>>
    ELSE (IF vor.ridge_points[k][1] = p1
          THEN << <<vor.ridge_points[k][2], vor.ridge_vertices[k][1],
                    vor.ridge_vertices[k][2]>> >>
          ELSE <<>>)
         \o (IF vor.ridge_points[k][2] = p1
             THEN << <<vor.ridge_points[k][1], vor.ridge_vertices[k][1],
                       vor.ridge_vertices[k][2]>> >>
             ELSE <<>>)
         \o AllRidges(vor, p1, k + 1)

\* lines 392-393: the tangent, of length 1
Tangent(t) == PScale(RDiv(ROne, Norm(t)), t)
\* line 395
Normal(t) == <<RSub(RZero, t[2]), t[1]>>
\* line 398: the normal n, turned away from the center
Direction(offset, n) == PScale(R(RSign(Dot(offset, n))), n)
\* lines 392-399
FarPoint(vor, center, radius, p1, p2, v2) ==
    PAdd(At(vor.vertices, v2),
         PScale(radius,
                Direction(PSub(PMean(<<At(vor.points, p1), At(vor.points, p2)>>), center),
                          Normal(Tangent(PSub(At(vor.points, p2), At(vor.points, p1)))))))

\* (mutation) the far points are put in front of the vertices
RECURSIVE RidgeLoop_prepend(_, _, _, _, _, _, _)
RidgeLoop_prepend(vor, center, radius, p1, ridges, k, acc) ==
    IF k > Len(ridges) THEN acc
    ELSE RidgeLoop_prepend(vor, center, radius, p1, ridges, k + 1,
            IF ridges[k][2] >= 0 /\ ridges[k][3] >= 0 THEN acc
            ELSE [region |-> Append(acc.region, Len(acc.vertices)),
                  vertices |-> <<FarPoint(vor, center, radius, p1, ridges[k][1],
                                          IF ridges[k][3] < 0 THEN ridges[k][2]
                                          ELSE ridges[k][3])>>
                                   \o acc.vertices])

\* lines 383-402: acc is [region, vertices].  After the swap of lines
\* 384-385 v1 is the smaller of the two vertices of a ridge that has the
\* vertex at infinity, and v2 the other one.
RECURSIVE RidgeLoop(_, _, _, _, _, _, _)
RidgeLoop(vor, center, radius, p1, ridges, k, acc) ==
    IF k > Len(ridges) THEN acc
    ELSE RidgeLoop(vor, center, radius, p1, ridges, k + 1,
            IF ridges[k][2] >= 0 /\ ridges[k][3] >= 0 THEN acc
            ELSE [region |-> Append(acc.region, Len(acc.vertices)),
                  vertices |-> Append(acc.vertices,
                                      FarPoint(vor, center, radius, p1, ridges[k][1],
                                               IF ridges[k][3] < 0 THEN ridges[k][2]
                                               ELSE ridges[k][3]))])

\* line 381: the vertices of the region that are not at infinity
KeepFinite(vertices) == SelectSeq(vertices, LAMBDA v : v >= 0)

\* lines 405-408
SortCounterclockwise(new_region, vs) ==
    Permuted(new_region,
             ArgSortAngles([k \in 1..Len(vs) |-> PSub(vs[k], PMean(vs))]))

\* lines 404-411: the region r = [region, vertices] is sorted and added
Finish(acc, r) ==
    [regions |-> Append(acc.regions,
                        SortCounterclockwise(r.region,
                            [k \in 1..Len(r.region) |-> At(r.vertices, r.region[k])])),
     vertices |-> r.vertices]

\* lines 371-411, from point p1 on: acc is [regions, vertices]
RECURSIVE RegionLoop(_, _, _, _, _)
RECURSIVE RegionStep(_, _, _, _, _, _)
RegionStep(vor, center, radius, p1, acc, vertices) ==
    RegionLoop(vor, center, radius, p1 + 1,
        IF \A k \in 1..Len(vertices) : vertices[k] >= 0
        THEN [acc EXCEPT !.regions = Append(@, vertices)]
        ELSE Finish(acc, RidgeLoop(vor, center, radius, p1, AllRidges(vor, p1, 1), 1,
                                   [region |-> KeepFinite(vertices),
                                    vertices |-> acc.vertices])))
RegionLoop(vor, center, radius, p1, acc) ==
    IF p1 >= Len(vor.point_region) THEN acc
    ELSE RegionStep(vor, center, radius, p1, acc,
                    At(vor.regions, At(vor.point_region, p1)))

\* the radius argument: a distance, or None
NoRadius == <<0, 0>>

\* (new_regions, new_vertices)
_voronoi_finite_polygons_2d(vor, radius) ==
    RegionLoop(vor, PMean(vor.points),
               IF radius = NoRadius THEN Ptp(vor.points) ELSE radius,
               0, [regions |-> <<>>, vertices |-> vor.vertices])

(***************************************************************************)
(* HvsrSpatial                                                             *)
(***************************************************************************)
\* An array handed in by the caller: npts rows of dim columns.  pts holds
\* the rows as points when dim = 2.
Array(dim, pts, npts) == [dim |-> dim, pts |-> pts, npts |-> npts]

\* lines 221-226
_boundary_to_mask(boundary) ==
    IF boundary.dim # 2 THEN Raise("ValueError", "_boundary_to_mask")
    ELSE Ok(ConvexHull(boundary.pts))

\* lines 254-262, from candidate index (0-based) on: the passing points,
\* their indices and the points a "Discarding point" record was logged for
RECURSIVE CullLoop(_, _, _, _)
CullLoop(coords, mask, index, acc) ==
    IF index >= Len(coords) THEN acc
    ELSE CullLoop(coords, mask, index + 1,
            IF Contains(mask, At(coords, index))
            THEN [acc EXCEPT !.points = Append(@, At(coords, index)),
                             !.indices = Append(@, index)]
            ELSE [acc EXCEPT !.log = Append(@, At(coords, index))])

\* (mutation) no candidate is discarded
_cull_points_keepAll(coords, mask) ==
    [points |-> coords, indices |-> [k \in 1..Len(coords) |-> k - 1], log |-> <<>>]

_cull_points(coords, mask) ==
    CullLoop(coords, mask, 0, [points |-> <<>>, indices |-> <<>>, log |-> <<>>])

(***************************************************************************)
(* Lengths are counted in units of a quarter of the default radius of      *)
(* _bounded_voronoi (line 285), so that exact integer arithmetic reaches   *)
(* distances of the order of that radius.                                  *)
(***************************************************************************)
Radius == 1000000
Unit == Radius \div 4
DefaultRadius == R(Radius \div Unit)

\* the outcome of a call together with the records it logged
Logged(r, log) ==
    [status |-> r.status, raised_by |-> r.raised_by, val |-> r.val, log |-> log]

\* lines 176-184
__init__(coordinates) ==
    IF coordinates.dim # 2 THEN Raise("ValueError", "__init__")
    ELSE IF coordinates.npts < 3 THEN Raise("ValueError", "__init__")
    ELSE Ok(coordinates.pts)

\* Polygon(ring).intersection(mask) for a convex mask: the ring is cut by
\* the half-plane of every edge of the mask in turn
Crossing(prev, cur, cp, cc) ==
    PAdd(prev, PScale(RDiv(cp, RSub(cp, cc)), PSub(cur, prev)))
Intersect(a, b, prev, cur) ==
    Crossing(prev, cur, Cross(a, b, prev), Cross(a, b, cur))

\* what the step from prev to cur leaves on the left of the line a b
Cut(a, b, prev, cur, pin, cin) ==
    (IF cin # pin THEN <<Intersect(a, b, prev, cur)>> ELSE <<>>)
        \o (IF cin THEN <<cur>> ELSE <<>>)

RECURSIVE ClipEdge(_, _, _, _)
ClipEdge(poly, a, b, k) ==
    IF k > Len(poly) THEN <<>>
    ELSE Cut(a, b, poly[IF k = 1 THEN Len(poly) ELSE k - 1], poly[k],
             RSign(Cross(a, b, poly[IF k = 1 THEN Len(poly) ELSE k - 1])) >= 0,
             RSign(Cross(a, b, poly[k])) >= 0)
         \o ClipEdge(poly, a, b, k + 1)

RECURSIVE ClipRing(_, _, _)
ClipRing(poly, ring, i) ==
    IF i > Len(ring) THEN poly
    ELSE ClipRing(ClipEdge(poly, ring[i], RingNext(ring, i), 1), ring, i + 1)

\* a ring without repeated consecutive vertices
RECURSIVE Dedupe(_)
Dedupe(poly) ==
    IF Len(poly) < 2 THEN poly
    ELSE IF poly[Len(poly)] = poly[1] \/ poly[Len(poly)] = poly[Len(poly) - 1]
    THEN Dedupe(SubSeq(poly, 1, Len(poly) - 1))
    ELSE Append(Dedupe(SubSeq(poly, 1, Len(poly) - 1)), poly[Len(poly)])

EmptyGeometry == [kind |-> "Empty", ring |-> <<>>]
\* the ring r as a geometry: a ring without area is no polygon
AsGeometry(r) ==
    IF Len(r) < 3 THEN EmptyGeometry
    ELSE IF RingArea(r) = RZero THEN EmptyGeometry
    ELSE [kind |-> "Polygon", ring |-> r]
Intersection(ring, mask) ==
    IF mask.kind # "Polygon" THEN EmptyGeometry
    ELSE AsGeometry(Dedupe(ClipRing(ring, mask.ring, 1)))

\* lines 313-321: the vertices of every region after the intersection with
\* the mask (none when the intersection is empty)
RECURSIVE ClipLoop(_, _, _, _)
ClipLoop(regions, vertices, mask, k) ==
    IF k > Len(regions) THEN <<>>
    ELSE <<Intersection([j \in 1..Len(regions[k]) |-> At(vertices, regions[k][j])],
                        mask).ring>>
             \o ClipLoop(regions, vertices, mask, k + 1)

\* lines 312-323, fin the (regions, vertices) of line 309
Bounded(fin, mask, indices) ==
    Ok([new_vertices |-> ClipLoop(fin.regions, fin.vertices, mask, 1),
        indices |-> indices])
\* lines 308-323, vor the outcome of Voronoi(points)
Tessellated(vor, cull, mask, radius) ==
    IF vor.status # "ok" THEN Logged(vor, cull.log)
    ELSE Logged(Bounded(_voronoi_finite_polygons_2d(vor.val, radius), mask, cull.indices),
                cull.log)
\* lines 308-323, cull what _cull_points gave
Culled(cull, mask, radius) == Tessellated(Voronoi(cull.points), cull, mask, radius)

\* lines 304-323
_bounded_voronoi(coordinates, mask, radius) ==
    Culled(_cull_points(coordinates, mask), mask, radius)

\* line 283, mask the outcome of _boundary_to_mask
BoundedIn(coordinates, mask) ==
    IF mask.status # "ok" THEN Logged(mask, <<>>)
    ELSE _bounded_voronoi(coordinates, mask.val, DefaultRadius)
\* lines 282-283
bounded_voronoi(coordinates, boundary) ==
    BoundedIn(coordinates, _boundary_to_mask(boundary))

\* lines 240-245, bv the outcome of _bounded_voronoi: region[0] of a region
\* without vertices is an IndexError
AreaWeights(total_area, bv) ==
    IF bv.status # "ok" THEN bv
    ELSE IF \E i \in 1..Len(bv.val.new_vertices) : bv.val.new_vertices[i] = <<>>
    THEN Logged(Raise("IndexError", "_voronoi_weights"), bv.log)
    ELSE Logged(Ok([weights |-> [i \in 1..Len(bv.val.new_vertices) |->
                                    RDiv(RingArea(bv.val.new_vertices[i]), total_area)],
                    indices |-> bv.val.indices]),
                bv.log)
\* lines 236-245, mask the outcome of _boundary_to_mask
WeightsIn(coordinates, mask) ==
    IF mask.status # "ok" THEN Logged(mask, <<>>)
    ELSE AreaWeights(Area(mask.val),
                     _bounded_voronoi(coordinates, mask.val, DefaultRadius))
\* lines 235-245
_voronoi_weights(coordinates, boundary) ==
    WeightsIn(coordinates, _boundary_to_mask(boundary))

\* lines 207-211
spatial_weights(coordinates, boundary, declustering_method) ==
    IF declustering_method = "voronoi" THEN _voronoi_weights(coordinates, boundary)
    ELSE Logged(Raise("NotImplementedError", "spatial_weights"), <<>>)

(***************************************************************************)
(* TimeSeries (src/hvsrpy/timeseries.py).  amplitude is the sequence of    *)
(* samples and dt the time step; times and window lengths are rationals    *)
(* whose floating-point arithmetic is exact.                               *)
(***************************************************************************)
\* int(x): x without its fraction (rounded toward zero)
Trunc(x) == IF x[1] >= 0 THEN x[1] \div x[2] ELSE -((-x[1]) \div x[2])

\* a[i:j] for 0 <= i and 0 <= j
Slice(a, i, j) == SubSeq(a, i + 1, IF j > Len(a) THEN Len(a) ELSE j)

\* line 84: np.arange(self.nsamples)*self.dt
time(nsamples, dt) == [k \in 1..nsamples |-> RMul(R(k - 1), dt)]

\* max(xs) of a sequence that is not empty
SeqMax(xs) == CHOOSE x \in Range(xs) : \A y \in Range(xs) : RLe(y, x)

\* np.argmin(xs): the (0-based) index of the first smallest element
ArgMin(xs) ==
    CHOOSE i \in 0..(Len(xs) - 1) :
        /\ \A j \in 0..(Len(xs) - 1) : RLe(At(xs, i), At(xs, j))
        /\ \A j \in 0..(i - 1) : At(xs, j) # At(xs, i)

\* lines 131-132: np.argmin(np.absolute(current_time - t))
Nearest(current_time, t) ==
    ArgMin([k \in 1..Len(current_time) |-> RAbs(RSub(current_time[k], t))])

\* lines 111-134, current_time not empty: the new amplitude
TrimChecked(amplitude, current_time, start_time, end_time) ==
    IF RLt(start_time, RZero) THEN Raise("IndexError", "trim")
    ELSE IF RLe(end_time, start_time) THEN Raise("IndexError", "trim")
    ELSE IF RLt(SeqMax(current_time), end_time) THEN Raise("IndexError", "trim")
    ELSE Ok(Slice(amplitude, Nearest(current_time, start_time),
                  Nearest(current_time, end_time) + 1))

\* lines 110-134: max() of a record without samples is a ValueError
trim(amplitude, dt, start_time, end_time) ==
    IF Len(amplitude) = 0 THEN Raise("ValueError", "max")
    ELSE TrimChecked(amplitude, time(Len(amplitude), dt), start_time, end_time)

\* lines 57-67, for a 1-D sequence of numbers
TimeSeries(amplitude, dt) == [amplitude |-> amplitude, dt |-> dt]

\* lines 186-193, from window k on (start_idx of window k is
\* (k - 1) * (samples_per_window - 1)): the windows, each [amplitude, dt]
RECURSIVE WindowLoop(_, _, _, _, _)
WindowLoop(amplitude, dt, samples_per_window, nwindows, k) ==
    IF k > nwindows THEN <<>>
    ELSE <<TimeSeries(Slice(amplitude, (k - 1) * (samples_per_window - 1),
                            (k - 1) * (samples_per_window - 1) + samples_per_window),
                      dt)>>
         \o WindowLoop(amplitude, dt, samples_per_window, nwindows, k + 1)

\* lines 181-193
SplitCounted(amplitude, dt, samples_per_window, nwindows) ==
    IF nwindows < 1 THEN Raise("ValueError", "split")
    ELSE Ok(WindowLoop(amplitude, dt, samples_per_window, nwindows, 1))

\* lines 179-193: the division by samples_per_window - 1 = 0 is a
\* ZeroDivisionError
SplitSized(amplitude, dt, samples_per_window) ==
    IF samples_per_window = 1 THEN Raise("ZeroDivisionError", "split")
    ELSE SplitCounted(amplitude, dt, samples_per_window,
                      Trunc(RDiv(R(Len(amplitude)), R(samples_per_window - 1))))

\* lines 178-193
split(amplitude, dt, window_length_in_seconds) ==
    IF dt = RZero THEN Raise("ZeroDivisionError", "split")
    ELSE SplitSized(amplitude, dt, Trunc(RDiv(window_length_in_seconds, dt)) + 1)

(***************************************************************************)
(* State.                                                                  *)
(***************************************************************************)
VARIABLES
    \* a direct call of _statistics: the caller's arrays, the position of
    \* the call and what it returned (with the weights it was called with)
    values, weights, st_pc, st_out,
    \* a call of montecarlo_fn: its arguments, the caller's generator (or
    \* None), the position of the call and its outcome
    mc_in, rng, mc_pc, mc_out,
    \* an HvsrSpatial object: the array given to the constructor,
    \* self.coordinates, the position in the object's life (one method is
    \* called on an object) and that call with its arguments, outcome and
    \* log records
    sp_arg, coordinates, sp_pc, sp_out,
    \* a TimeSeries object: self.amplitude, self.dt, the position in the
    \* object's life and the last call with its arguments, its outcome and
    \* the amplitude it found
    amplitude, dt, ts_pc, ts_out

statVars == <<values, weights, st_pc, st_out>>
mcVars == <<mc_in, rng, mc_pc, mc_out>>
spVars == <<sp_arg, coordinates, sp_pc, sp_out>>
tsVars == <<amplitude, dt, ts_pc, ts_out>>
vars == <<values, weights, st_pc, st_out, mc_in, rng, mc_pc, mc_out,
          sp_arg, coordinates, sp_pc, sp_out, amplitude, dt, ts_pc, ts_out>>

NoResult == [mean |-> NaN, stddev |-> NaN, called_with |-> <<>>]
\* the rng argument: a generator in some state, or None
Rng(s) == [given |-> TRUE, state |-> s]
NoRng == [given |-> FALSE, state |-> 0]

NoCall == [generators |-> <<>>, generator_weights |-> <<>>,
           distribution_generators |-> "normal", distribution_spatial |-> "normal",
           n_realizations |-> 0, rng |-> NoRng]

Matrices(m, n) == [1..m -> [1..n -> {Fin(R(v)) : v \in ValueDom}]]
WeightVectors(m, dom) ==
    {w \in [1..m -> {R(k) : k \in dom}] : RSum(w) # RZero}

NoArray == [dim |-> 2, pts |-> <<>>, npts |-> 0]
SpCall(op, boundary, vor, r) ==
    [op |-> op, boundary |-> boundary, vor |-> vor,
     status |-> r.status, raised_by |-> r.raised_by, val |-> r.val, log |-> r.log]
SpNone == SpCall("", NoArray, <<>>, Logged(Ok(<<>>), <<>>))

StatIdle == values = <<>> /\ weights = <<>> /\ st_pc = "idle" /\ st_out = NoResult
McIdle == mc_in = NoCall /\ rng = NoRng /\ mc_pc = "idle" /\ mc_out = McNone
SpIdle == sp_arg = NoArray /\ coordinates = <<>> /\ sp_pc = "idle" /\ sp_out = SpNone

TsCall(op, args, before, r) ==
    [op |-> op, args |-> args, before |-> before,
     status |-> r.status, raised_by |-> r.raised_by, val |-> r.val]
TsNone == TsCall("", <<>>, <<>>, Ok(<<>>))
TsIdle == amplitude = <<>> /\ dt = ROne /\ ts_pc = "idle" /\ ts_out = TsNone

StatInit ==
    /\ \E m \in 1..MaxM, n \in 1..MaxN :
          /\ values \in Matrices(m, n)
          /\ weights \in WeightVectors(m, WeightDom)
    /\ st_pc = "ready"
    /\ st_out = NoResult
    /\ McIdle
    /\ SpIdle
    /\ TsIdle

McInit ==
    /\ \E m \in 1..MaxM, n \in 1..MaxN, g0 \in {Rng(s) : s \in RngStates} \cup {NoRng} :
          /\ mc_in \in [generators : [1..m -> GeneratorDom],
                        generator_weights : WeightVectors(m, McWeightDom),
                        distribution_generators : KindDom,
                        distribution_spatial : KindDom,
                        n_realizations : {n},
                        rng : {g0}]
          /\ rng = g0
    /\ mc_pc = "ready"
    /\ mc_out = McNone
    /\ StatIdle
    /\ TsIdle
    /\ SpIdle

\* mean, stddev = _statistics(values, weights)
Statistics ==
    /\ st_pc = "ready"
    /\ st_out' = [mean |-> _statistics(values, weights).mean,
                  stddev |-> _statistics(values, weights).stddev,
                  called_with |-> weights]
    /\ weights' = StatWeightsAfter(weights)
    /\ st_pc' = "done"
    /\ UNCHANGED <<values, mcVars, spVars, tsVars>>

\* montecarlo_fn(...) with the caller's generator
MonteCarloRng ==
    /\ mc_pc = "ready"
    /\ rng.given
    /\ LET r == montecarlo_fn(mc_in, rng.state)
       IN  mc_out' = r.out /\ rng' = Rng(r.rng)
    /\ mc_pc' = "done"
    /\ UNCHANGED <<mc_in, statVars, spVars, tsVars>>

\* montecarlo_fn(..., rng=None): line 122 makes a generator of its own
MonteCarloDefaultRng ==
    /\ mc_pc = "ready"
    /\ ~rng.given
    /\ \E seed \in RngStates : mc_out' = montecarlo_fn(mc_in, seed).out
    /\ mc_pc' = "done"
    /\ UNCHANGED <<mc_in, rng, statVars, spVars, tsVars>>

StatsInit == StatInit \/ McInit
StatsNext == Statistics \/ MonteCarloRng \/ MonteCarloDefaultRng
SpecStats == StatsInit /\ [][StatsNext]_vars

(***************************************************************************)
(* The HvsrSpatial object.  The candidate locations are drawn from a few   *)
(* sites, in an order that is not sorted; boundaries are drawn by every    *)
(* call.                                                                   *)
(***************************************************************************)
Sites == <<Pt(3, 3), Pt(1, 1), Pt(5, 1), Pt(1, 3), Pt(3, 1), Pt(1, 4), Pt(2, 2)>>
Row3 == <<R(1), R(1), R(0)>>

CoordinateDom ==
    {Array(2, [k \in 1..Cardinality(S) |-> Sites[SortedInts(S)[k]]], Cardinality(S)) :
        S \in {T \in SUBSET (1..Len(Sites)) : Cardinality(T) \in 3..MaxPts}}
    \cup {Array(2, <<Pt(1, 1), Pt(3, 3)>>, 2), Array(3, <<Row3, Row3, Row3>>, 3)}

BoundaryDom ==
    {Array(2, <<Pt(0, 0), Pt(4, 0), Pt(4, 4), Pt(0, 4)>>, 4),
     Array(2, <<Pt(0, 0), Pt(6, 6), Pt(6, 0), Pt(3, 3), Pt(0, 6)>>, 5),
     Array(2, <<Pt(1, 1), Pt(5, 1), Pt(5, 4), Pt(1, 4)>>, 4),
     Array(2, <<Pt(0, 0), Pt(6, 0), Pt(0, 6)>>, 3),
     Array(2, <<Pt(0, 0), Pt(6, 6)>>, 2),
     Array(2, <<Pt(1, 1)>>, 1),
     Array(2, <<>>, 0),
     Array(3, <<Row3, Row3, Row3>>, 3)}

MethodDom == {"voronoi", "kriging"}

\* The far points of a tessellation are rational when the points on both
\* sides of every unbounded ridge are a rational distance apart.
RationalRidges(points, vor) ==
    vor.status = "ok" =>
        \A k \in 1..Len(vor.val.ridge_points) :
            vor.val.ridge_vertices[k][1] < 0 =>
                HasRationalNorm(PSub(At(points, vor.val.ridge_points[k][2]),
                                     At(points, vor.val.ridge_points[k][1])))
RationalFarPoints(points) == RationalRidges(points, Voronoi(points))
RepresentableIn(coords, mask) ==
    mask.status = "ok" => RationalFarPoints(_cull_points(coords, mask.val).points)
Representable(coords, boundary) == RepresentableIn(coords, _boundary_to_mask(boundary))

SpatialInit ==
    /\ sp_arg \in CoordinateDom
    /\ coordinates = <<>>
    /\ sp_pc = "new"
    /\ sp_out = SpNone
    /\ StatIdle
    /\ McIdle
    /\ TsIdle

\* HvsrSpatial(coordinates)
Construct ==
    /\ sp_pc = "new"
    /\ \E r \in {__init__(sp_arg)} :
          /\ sp_out' = SpCall("__init__", NoArray, <<>>, Logged(r, <<>>))
          /\ IF r.status = "ok"
             THEN coordinates' = r.val /\ sp_pc' = "constructed"
             ELSE coordinates' = coordinates /\ sp_pc' = "failed"
    /\ UNCHANGED <<sp_arg, statVars, mcVars, tsVars>>

\* self._cull_points(mask), the mask made of a boundary
CullPoints ==
    /\ sp_pc = "constructed"
    /\ \E boundary \in BoundaryDom :
          \E mask \in {_boundary_to_mask(boundary)} :
             /\ mask.status = "ok"
             /\ \E r \in {_cull_points(coordinates, mask.val)} :
                   sp_out' = SpCall("_cull_points", boundary, <<>>,
                                    Logged(Ok([points |-> r.points,
                                               indices |-> r.indices]), r.log))
    /\ sp_pc' = "called"
    /\ UNCHANGED <<sp_arg, coordinates, statVars, mcVars, tsVars>>

\* self.spatial_weights(boundary, declustering_method)
SpatialWeights ==
    /\ sp_pc = "constructed"
    /\ \E boundary \in BoundaryDom :
          /\ Representable(coordinates, boundary)
          /\ \E declustering_method \in MethodDom :
                sp_out' = SpCall("spatial_weights", boundary, <<>>,
                                 spatial_weights(coordinates, boundary,
                                                 declustering_method))
    /\ sp_pc' = "called"
    /\ UNCHANGED <<sp_arg, coordinates, statVars, mcVars, tsVars>>

\* self.bounded_voronoi(boundary)
BoundedVoronoi ==
    /\ sp_pc = "constructed"
    /\ \E boundary \in BoundaryDom :
          /\ Representable(coordinates, boundary)
          /\ sp_out' = SpCall("bounded_voronoi", boundary, <<>>,
                              bounded_voronoi(coordinates, boundary))
    /\ sp_pc' = "called"
    /\ UNCHANGED <<sp_arg, coordinates, statVars, mcVars, tsVars>>

\* self._voronoi_finite_polygons_2d(Voronoi(self.coordinates), radius)
VoronoiFinitePolygons ==
    /\ sp_pc = "constructed"
    /\ \E vor \in {Voronoi(coordinates)} :
          /\ vor.status = "ok"
          /\ RationalRidges(coordinates, vor)
          /\ \E radius \in {NoRadius, DefaultRadius} :
                sp_out' = SpCall("_voronoi_finite_polygons_2d", NoArray, vor.val,
                                 Logged(Ok(_voronoi_finite_polygons_2d(vor.val, radius)),
                                        <<>>))
    /\ sp_pc' = "called"
    /\ UNCHANGED <<sp_arg, coordinates, statVars, mcVars, tsVars>>

SpatialNext ==
    Construct \/ CullPoints \/ SpatialWeights \/ BoundedVoronoi \/ VoronoiFinitePolygons
SpecSpatial == SpatialInit /\ [][SpatialNext]_vars

(***************************************************************************)
(* The TimeSeries object.  trim and split are called in any order and any  *)
(* number of times, with times and window lengths that are or are not      *)
(* multiples of dt.                                                        *)
(***************************************************************************)
MaxSamples == 5

\* records whose samples all differ, so that a sample names its place
AmplitudeDom ==
    {[k \in 1..n |-> R(s * k)] : n \in 0..MaxSamples, s \in {1, -1}}
DtDom == {RNorm(1, 2), R(1), R(2)}
\* -1/2, 0, 1/2, 1, ...
TimeDom == {RNorm(k, 2) : k \in (-1)..(2 * MaxSamples)}

SeriesInit ==
    /\ amplitude \in AmplitudeDom
    /\ dt \in DtDom
    /\ ts_pc = "ready"
    /\ ts_out = TsNone
    /\ StatIdle
    /\ McIdle
    /\ SpIdle

\* self.trim(start_time, end_time)
Trim ==
    /\ ts_pc = "ready"
    /\ \E start_time \in TimeDom, end_time \in TimeDom :
          \E r \in {trim(amplitude, dt, start_time, end_time)} :
             /\ ts_out' = TsCall("trim", <<start_time, end_time>>, amplitude, r)
             /\ amplitude' = IF r.status = "ok" THEN r.val ELSE amplitude
    /\ UNCHANGED <<dt, ts_pc, statVars, mcVars, spVars>>

\* self.split(window_length_in_seconds)
Split ==
    /\ ts_pc = "ready"
    /\ \E window_length_in_seconds \in TimeDom :
          ts_out' = TsCall("split", <<window_length_in_seconds>>, amplitude,
                           split(amplitude, dt, window_length_in_seconds))
    /\ UNCHANGED <<amplitude, dt, ts_pc, statVars, mcVars, spVars>>

SeriesNext == Trim \/ Split
SpecSeries == SeriesInit /\ [][SeriesNext]_vars

(***************************************************************************)
(* The claims about _statistics and montecarlo_fn.                         *)
(***************************************************************************)
\* the sum of the values of a function with a finite domain
RECURSIVE FSum(_)
FSum(f) ==
    IF DOMAIN f = {} THEN RZero
    ELSE LET i == CHOOSE k \in DOMAIN f : TRUE
         IN  RAdd(f[i], FSum([j \in DOMAIN f \ {i} |-> f[j]]))

RSq(a) == RMul(a, a)
\* w_i: the weights normalised to sum to 1
W(w) == [i \in DOMAIN w |-> RDiv(w[i], FSum(w))]
\* sum_i w_i^2
SumW2(w) == FSum([i \in DOMAIN w |-> RSq(W(w)[i])])
Concentrated(w) == SumW2(w) = ROne
NCols(v) == Len(v[1])
\* sum_i (w_i * sum_j value[i,j]) / N
WeightedMean(v, w) ==
    RDiv(FSum([i \in DOMAIN v |->
                 RMul(W(w)[i], FSum([j \in DOMAIN v[i] |-> v[i][j].q]))]),
         R(NCols(v)))
\* sum_i w_i * sum_j (value[i,j] - mean)^2 / N
WeightedSquares(v, w, mean) ==
    RDiv(FSum([i \in DOMAIN v |->
                 RMul(W(w)[i], FSum([j \in DOMAIN v[i] |-> RSq(RSub(v[i][j].q, mean))]))]),
         R(NCols(v)))
Scaled(k, w) == [i \in DOMAIN w |-> RMul(R(k), w[i])]
NonNegative(w) == \A i \in DOMAIN w : RSign(w[i]) >= 0

\* C1 as stated: the stddev returned by _statistics is the square root of
\* [sum_i w_i sum_j (value[i,j] - mean)^2 / N] / (1 - sum_i w_i^2), wherever
\* that quotient is defined and not negative (stated here for weights that
\* are not negative).
C1_StddevAsClaimed ==
    (st_pc = "done" /\ NonNegative(st_out.called_with)) =>
        LET num == WeightedSquares(values, st_out.called_with, st_out.mean.q)
            den == RSub(ROne, SumW2(st_out.called_with))
        IN  (den # RZero /\ RSign(RDiv(num, den)) >= 0)
                => st_out.stddev = SqrtOf(RDiv(num, den))

\* C1 (amended): the sum of the squared weights is divided by N too: the
\* stddev returned by _statistics is the square root of
\* [sum_i w_i sum_j (value[i,j] - mean)^2 / N] / (1 - sum_i w_i^2 / N),
\* wherever that quotient is defined and not negative.
C1_Stddev ==
    st_pc = "done" =>
        LET num == WeightedSquares(values, st_out.called_with, st_out.mean.q)
            den == RSub(ROne, RDiv(SumW2(st_out.called_with), R(NCols(values))))
        IN  (den # RZero /\ RSign(RDiv(num, den)) >= 0)
                => st_out.stddev = SqrtOf(RDiv(num, den))

\* a 2 x 2 matrix with unequal weights and a positive, finite stddev
C1_Witness ==
    /\ st_pc = "done"
    /\ Len(values) = 2 /\ NCols(values) = 2
    /\ st_out.called_with[1] # st_out.called_with[2]
    /\ NonNegative(st_out.called_with)
    /\ st_out.stddev.t = "sqrt" /\ RSign(st_out.stddev.q) > 0

\* C2: the mean returned by _statistics is sum_i (w_i * sum_j value[i,j]) / N;
\* it is the same for the weights multiplied by a positive constant; and the
\* caller's weight vector is as it was when the call was made.
C2_Mean ==
    st_pc = "done" =>
        /\ st_out.mean = Fin(WeightedMean(values, st_out.called_with))
        /\ \A k \in ScaleDom :
              _statistics(values, Scaled(k, st_out.called_with)).mean = st_out.mean
        /\ weights = st_out.called_with

\* two locations with different, non-zero weights and different row sums
C2_Witness ==
    /\ st_pc = "done"
    /\ Len(values) = 2
    /\ RSign(weights[1]) > 0 /\ RSign(weights[2]) > 0 /\ weights[1] # weights[2]
    /\ RSum(Qs(values[1])) # RSum(Qs(values[2]))
    /\ st_out.mean.t = "fin" /\ st_out.mean.q # RZero

\* C3 as stated: with fully concentrated weights (sum_i w_i^2 = 1) no error
\* is raised and the returned stddev is not finite, for every N >= 1 (stated
\* here for weights that are not negative).
C3_NonFiniteAsClaimed ==
    /\ (st_pc = "done" /\ Concentrated(st_out.called_with)
                       /\ NonNegative(st_out.called_with))
          => ~IsFinite(st_out.stddev)
    /\ (/\ mc_pc = "done"
        /\ mc_in.distribution_generators \in Kinds
        /\ mc_in.distribution_spatial \in Kinds
        /\ Concentrated(mc_in.generator_weights)
        /\ AllRational(mc_out.stats_in))
          => (mc_out.status = "returned" /\ ~IsFinite(mc_out.stddev))

\* the stddev the amended C3 expects of an M x N matrix v with weights w
C3_Expected(v, w, mean, stddev) ==
    /\ NCols(v) = 1 => ~IsFinite(stddev)
    /\ (NCols(v) >= 2 /\ NonNegative(w)) =>
          stddev = SqrtOf(RDiv(WeightedSquares(v, w, mean),
                               RSub(ROne, RDiv(ROne, R(NCols(v))))))

\* C3 (amended): with fully concentrated weights no error is raised and the
\* bias-correction denominator is 1 - 1/N: the returned stddev is not finite
\* for N = 1 only; for every N >= 2 and non-negative weights it is the
\* finite square root of [sum_i w_i sum_j (value[i,j]-mean)^2 / N] / (1 - 1/N).
C3_NonFiniteOnlyForOne ==
    /\ (st_pc = "done" /\ Concentrated(st_out.called_with))
          => C3_Expected(values, st_out.called_with, st_out.mean.q, st_out.stddev)
    /\ (/\ mc_pc = "done"
        /\ mc_in.distribution_generators \in Kinds
        /\ mc_in.distribution_spatial \in Kinds
        /\ Concentrated(mc_in.generator_weights)
        /\ AllRational(mc_out.stats_in))
          => /\ mc_out.status = "returned"
             /\ C3_Expected(mc_out.stats_in, mc_in.generator_weights,
                            mc_out.stats.mean.q, mc_out.stddev)

\* montecarlo_fn returned for two locations, one of them with all the weight,
\* and two realizations that differ: the stddev is finite and positive
C3_Witness ==
    /\ mc_pc = "done" /\ mc_out.status = "returned"
    /\ Len(mc_in.generator_weights) = 2
    /\ Concentrated(mc_in.generator_weights)
    /\ mc_in.n_realizations = 2
    /\ mc_out.stddev.t = "sqrt" /\ RSign(mc_out.stddev.q) > 0

\* what C4 expects to be handed to _statistics
C4_Prepared(S, dg, ds) ==
    CASE dg = "lognormal" /\ ds = "normal" -> MapMatrix(NpExp, S)
      [] dg = "normal" /\ ds = "lognormal" -> MapMatrix(NpLog, S)
      [] OTHER -> S

\* C4: with S the raw samples, montecarlo_fn hands exp(S), log(S) or S to
\* _statistics according to the two kinds; when the spatial kind is lognormal
\* the returned mean and realizations are the exponential of the values used
\* in the statistics and the returned stddev is the one _statistics gave; when
\* it is normal nothing is changed after the statistics.
C4_Transforms ==
    (mc_pc = "done" /\ mc_out.status = "returned") =>
        LET dg == mc_in.distribution_generators
            ds == mc_in.distribution_spatial
            used == C4_Prepared(mc_out.samples, dg, ds)
        IN  /\ mc_out.stats_in = used
            /\ mc_out.stats = _statistics(used, mc_in.generator_weights)
            /\ mc_out.stddev = mc_out.stats.stddev
            /\ ds = "lognormal" =>
                  /\ mc_out.mean = NpExp(mc_out.stats.mean)
                  /\ mc_out.realizations = MapMatrix(NpExp, used)
            /\ ds = "normal" =>
                  /\ mc_out.mean = mc_out.stats.mean
                  /\ mc_out.realizations = used

\* lognormal generators and lognormal statistics: the samples go to
\* _statistics as drawn, a rational mean and a positive stddev come back,
\* and the mean and the realizations are exponentiated on return
C4_Witness ==
    /\ mc_pc = "done" /\ mc_out.status = "returned"
    /\ mc_in.distribution_generators = "lognormal"
    /\ mc_in.distribution_spatial = "lognormal"
    /\ mc_out.stats.mean.t = "fin" /\ mc_out.mean = Lvl(1, mc_out.stats.mean.q)
    /\ mc_out.stddev.t = "sqrt" /\ RSign(mc_out.stddev.q) > 0
    /\ mc_out.realizations # mc_out.stats_in

\* C5: montecarlo_fn raises NotImplementedError exactly when one of the two
\* kinds is not 'normal' or 'lognormal'; it then has drawn nothing from the
\* caller's generator, whose state is unchanged, and returns nothing.
C5_UnsupportedKind ==
    mc_pc = "done" =>
        LET bad == \/ mc_in.distribution_generators \notin Kinds
                   \/ mc_in.distribution_spatial \notin Kinds
        IN  /\ bad => /\ mc_out.status = "NotImplementedError"
                      /\ rng = mc_in.rng
                      /\ mc_out.samples = <<>> /\ mc_out.realizations = <<>>
            /\ ~bad => mc_out.status = "returned"

\* a supported generating kind with an unsupported spatial kind, on a
\* generator the caller supplied
C5_Witness ==
    /\ mc_pc = "done" /\ mc_out.status = "NotImplementedError"
    /\ mc_in.distribution_generators \in Kinds
    /\ mc_in.distribution_spatial \notin Kinds
    /\ mc_in.rng.given /\ rng = mc_in.rng
    /\ Len(mc_in.generators) = 2

(***************************************************************************)
(* The claims about HvsrSpatial.                                           *)
(***************************************************************************)
OnSegment(a, b, p) ==
    Cross(a, b, p) = RZero /\ RSign(Dot(PSub(a, p), PSub(b, p))) <= 0
InTriangle(a, b, c, p) ==
    LET s == {RSign(Cross(a, b, p)), RSign(Cross(b, c, p)), RSign(Cross(c, a, p))}
    IN  ~(1 \in s /\ -1 \in s)
\* p is a convex combination of the points P
InClosedHull(P, p) ==
    \/ \E a \in P, b \in P : OnSegment(a, b, p)
    \/ \E a \in P, b \in P, c \in P : Cross(a, b, c) # RZero /\ InTriangle(a, b, c, p)
StrictlyOutside(boundary, p) == ~InClosedHull(Range(boundary.pts), p)
\* the hull of the boundary has an interior
ProperMask(boundary) ==
    boundary.dim = 2 /\ boundary.npts >= 3 /\ ~AllCollinear(Range(boundary.pts))
\* p is on an edge or at a corner of the hull of the boundary
OnMaskEdge(boundary, p) ==
    LET P == Range(boundary.pts)
    IN  /\ InClosedHull(P, p)
        /\ \E a \in P, b \in P :
              /\ a # b
              /\ Cross(a, b, p) = RZero
              /\ \A c \in P : RSign(Cross(a, b, c)) >= 0

CandidateIndices == 0..(Len(coordinates) - 1)
OutsideIndices(boundary) ==
    {i \in CandidateIndices : StrictlyOutside(boundary, At(coordinates, i))}
Returned(op) == sp_pc = "called" /\ sp_out.op = op /\ sp_out.status = "ok"

\* C6: _cull_points returns points and indices of equal length, the
\* indices strictly increasing and points[k] = coordinates[indices[k]]; no
\* coordinate strictly outside the mask has its index returned, by
\* _cull_points or with the weights of spatial_weights; every candidate
\* index is either returned or has exactly one "Discarding point" record,
\* never both; and self.coordinates stays what the constructor stored.
C6_Cull ==
    /\ sp_pc \in {"constructed", "called"} => coordinates = sp_arg.pts
    /\ Returned("_cull_points") =>
          LET points == sp_out.val.points
              indices == sp_out.val.indices
              discarded == SortedInts(CandidateIndices \ Range(indices))
          IN  /\ Len(points) = Len(indices)
              /\ \A k \in 1..(Len(indices) - 1) : indices[k] < indices[k + 1]
              /\ \A k \in 1..Len(indices) :
                    /\ indices[k] \in CandidateIndices
                    /\ points[k] = At(coordinates, indices[k])
              /\ Range(indices) \cap OutsideIndices(sp_out.boundary) = {}
              /\ sp_out.log = [k \in 1..Len(discarded) |-> At(coordinates, discarded[k])]
    /\ Returned("spatial_weights") =>
          /\ Len(sp_out.val.weights) = Len(sp_out.val.indices)
          /\ Range(sp_out.val.indices) \cap OutsideIndices(sp_out.boundary) = {}
    /\ Returned("bounded_voronoi") =>
          Range(sp_out.val.indices) \cap OutsideIndices(sp_out.boundary) = {}

\* _cull_points kept some candidates and discarded one strictly outside
C6_Witness ==
    /\ Returned("_cull_points")
    /\ sp_out.val.indices # <<>>
    /\ sp_out.log # <<>>
    /\ OutsideIndices(sp_out.boundary) # {}

\* C7 (as stated): a candidate on an edge or at a corner of the mask is
\* retained by _cull_points, its index returned.
C7_BoundaryInclusive ==
    (Returned("_cull_points") /\ ProperMask(sp_out.boundary)) =>
        \A i \in CandidateIndices :
            OnMaskEdge(sp_out.boundary, At(coordinates, i)) =>
                i \in Range(sp_out.val.indices)

\* C8 (as stated): a boundary of fewer than 3 points in 2 columns given to
\* spatial_weights or bounded_voronoi is rejected by _boundary_to_mask
\* with a validation error, before anything else is done.
C8_BoundaryValidated ==
    (/\ sp_pc = "called"
     /\ sp_out.op \in {"spatial_weights", "bounded_voronoi"}
     /\ sp_out.status # "NotImplementedError"
     /\ sp_out.boundary.dim = 2
     /\ sp_out.boundary.npts < 3) =>
        (sp_out.status = "ValueError" /\ sp_out.raised_by = "_boundary_to_mask")

\* C9: _voronoi_finite_polygons_2d returns one region per input point, in
\* the order of the points; a region without the vertex at infinity is
\* returned as it is; every index of every returned region is a valid
\* index of the returned vertices, none negative; and the returned
\* vertices start with the vertices of the tessellation.
C9_FinitePolygons ==
    Returned("_voronoi_finite_polygons_2d") =>
        LET vor == sp_out.vor
            regions == sp_out.val.regions
            vertices == sp_out.val.vertices
            Before(p) == At(vor.regions, At(vor.point_region, p))
        IN  /\ Len(regions) = Len(vor.points)
            /\ \A p \in 0..(Len(vor.points) - 1) :
                  /\ (\A k \in 1..Len(Before(p)) : Before(p)[k] >= 0) =>
                        At(regions, p) = Before(p)
                  /\ \A k \in 1..Len(At(regions, p)) :
                        At(regions, p)[k] \in 0..(Len(vertices) - 1)
            /\ Len(vertices) >= Len(vor.vertices)
            /\ SubSeq(vertices, 1, Len(vor.vertices)) = vor.vertices

\* a tessellation with a bounded and an unbounded region was reconstructed
C9_Witness ==
    /\ Returned("_voronoi_finite_polygons_2d")
    /\ \E r \in 2..Len(sp_out.vor.regions) :
          \A k \in 1..Len(sp_out.vor.regions[r]) : sp_out.vor.regions[r][k] >= 0
    /\ \E r \in 2..Len(sp_out.vor.regions) :
          \E k \in 1..Len(sp_out.vor.regions[r]) : sp_out.vor.regions[r][k] < 0
    /\ Len(sp_out.val.vertices) > Len(sp_out.vor.vertices)

Tolerance == <<1, 1000000>>
\* C10 (as stated): when spatial_weights("voronoi") returns, there is one
\* weight per returned index, no weight is negative and the weights sum
\* to 1 within tolerance.
C10_WeightsSumToOne ==
    Returned("spatial_weights") =>
        LET w == sp_out.val.weights
            off == RSub(RSum(w), ROne)
        IN  /\ Len(w) = Len(sp_out.val.indices)
            /\ \A k \in 1..Len(w) : RSign(w[k]) >= 0
            /\ RLe(off, Tolerance) /\ RLe(RSub(RZero, off), Tolerance)

(***************************************************************************)
(* The claims about TimeSeries.                                            *)
(***************************************************************************)
SplitReturned == ts_out.op = "split" /\ ts_out.status = "ok"
\* int(window_length_in_seconds/dt) + 1 of the last call of split
RequestedSamples == Trunc(RDiv(ts_out.args[1], dt)) + 1
\* the time of the last sample of the record the last call found
RecordLength == RMul(R(Len(ts_out.before) - 1), dt)

\* C11: whenever split returns a list, every window has exactly
\* int(window_length_in_seconds/dt) + 1 samples and the dt of the record,
\* the last sample of window k is the record sample that is the first
\* sample of window k + 1, and the amplitude of the record is unchanged.
C11_SplitWindows ==
    SplitReturned =>
        /\ \A k \in 1..Len(ts_out.val) :
              /\ Len(ts_out.val[k].amplitude) = RequestedSamples
              /\ ts_out.val[k].dt = dt
              /\ \A j \in 1..Len(ts_out.val[k].amplitude) :
                    /\ (k - 1) * (RequestedSamples - 1) + j <= Len(ts_out.before)
                    /\ ts_out.val[k].amplitude[j]
                           = ts_out.before[(k - 1) * (RequestedSamples - 1) + j]
        /\ amplitude = ts_out.before

TrimCalled == ts_out.op = "trim"
\* the start and end time of the last call of trim are illogical
Illogical ==
    \/ RLt(ts_out.args[1], RZero)
    \/ ~RLt(ts_out.args[1], ts_out.args[2])
    \/ RLt(RecordLength, ts_out.args[2])

\* C12: trim raises IndexError whenever start_time is less than zero,
\* start_time is not before end_time or end_time is after the time of the
\* last sample, and then leaves the amplitude unchanged; otherwise it raises
\* no IndexError and at least one sample remains.
C12_TrimRejects ==
    TrimCalled =>
        IF Illogical
        THEN ts_out.status = "IndexError" /\ amplitude = ts_out.before
        ELSE ts_out.status # "IndexError" /\ Len(amplitude) >= 1

TrimReturned == TrimCalled /\ ts_out.status = "ok"
\* the record samples (1-based places) the last call of trim kept: the run
\* of the record that is the new amplitude
KeptRuns ==
    {i \in 1..(Len(ts_out.before) - Len(amplitude) + 1) :
        SubSeq(ts_out.before, i, i + Len(amplitude) - 1) = amplitude}

\* C13: after a successful trim the retained samples are a contiguous run
\* of the record, and the time (k - 1) * dt of every retained sample lies in
\* [start_time, end_time], also when these are no multiples of dt.
C13_TrimInterval ==
    TrimReturned =>
        /\ KeptRuns # {}
        /\ \A i \in KeptRuns :
              \A k \in i..(i + Len(amplitude) - 1) :
                 /\ RLe(ts_out.args[1], RMul(R(k - 1), dt))
                 /\ RLe(RMul(R(k - 1), dt), ts_out.args[2])

SplitCalled == ts_out.op = "split"

\* C14: split raises ValueError, returning no windows, whenever the window
\* length is larger than the record length (nsamples - 1) * dt, and never
\* returns a list whose only window is shorter than requested.
C14_SplitRejects ==
    SplitCalled =>
        /\ RLt(RecordLength, ts_out.args[1]) => ts_out.status = "ValueError"
        /\ (ts_out.status = "ok" /\ Len(ts_out.val) = 1) =>
              Len(ts_out.val[1].amplitude) >= RequestedSamples

(***************************************************************************)
(* The far points of _bounded_voronoi.                                     *)
(***************************************************************************)
\* f is finite_vertex + sign*normal*radius for the unbounded ridge k of
\* vor: radius away from the vertex of the ridge, at a right angle to the
\* line between the two points of the ridge, on the side away from center
SynthesizedFor(vor, center, radius, k, f) ==
    /\ vor.ridge_vertices[k][1] < 0
    /\ Dist2(f, At(vor.vertices, vor.ridge_vertices[k][2])) = RMul(radius, radius)
    /\ Dot(PSub(f, At(vor.vertices, vor.ridge_vertices[k][2])),
           PSub(At(vor.points, vor.ridge_points[k][2]),
                At(vor.points, vor.ridge_points[k][1]))) = RZero
    /\ RSign(Dot(PSub(f, At(vor.vertices, vor.ridge_vertices[k][2])),
                 PSub(PMean(<<At(vor.points, vor.ridge_points[k][1]),
                              At(vor.points, vor.ridge_points[k][2])>>),
                      center))) > 0
\* the vertices that fin adds to those of vor
Synthesized(vor, fin) ==
    {fin.vertices[i] : i \in (Len(vor.vertices) + 1)..Len(fin.vertices)}
FarPointsOutside(boundary, vor, far) ==
    \A f \in far :
        /\ \E k \in 1..Len(vor.ridge_points) :
              SynthesizedFor(vor, PMean(vor.points), DefaultRadius, k, f)
        /\ StrictlyOutside(boundary, f)
FarPointsOf(boundary, vor) ==
    FarPointsOutside(boundary, vor,
                     Synthesized(vor, _voronoi_finite_polygons_2d(vor, DefaultRadius)))
\* the locations the last call retained
Retained == [k \in 1..Len(sp_out.val.indices) |-> At(coordinates, sp_out.val.indices[k])]

\* C15: every vertex that _voronoi_finite_polygons_2d synthesizes for
\* _bounded_voronoi is finite_vertex + sign*normal*radius of an unbounded
\* ridge, with a sign that is not zero and points away from the centroid of
\* the retained locations, and lies outside the mask the regions are
\* clipped against.
C15_FarPointsOutside ==
    Returned("bounded_voronoi") => FarPointsOf(sp_out.boundary, Voronoi(Retained).val)

=============================================================================
